---- MODULE Spec2Model ----
(***************************************************************************)
(* The research-and-generation pipeline of src/app.py: scrape_website,     *)
(* extract_emails, generate_pitch, create_mailto_link and the main loop    *)
(* that turns a batch of input tokens into lead records.                   *)
(*                                                                         *)
(* Strings are sequences of atoms.  An atom is a single character (the     *)
(* tokens, URLs and company names are spelled character by character, so   *)
(* the substring tests of the code are computed) or a whole literal        *)
(* fragment of an f-string, an exception text, a page word.  The empty     *)
(* string is the empty sequence.                                           *)
(***************************************************************************)
EXTENDS Integers, Sequences, FiniteSets, TLC

VARIABLES
    inputs,    \* inputs_to_process: the batch, a sequence of tokens
    i,         \* 1-based index of the item the loop is at
    pc,        \* position of the script: "scrape" (line 172), "get_wait" (58),
               \* "generate" (181), "post1_wait" (116), "post2_wait" (123),
               \* "done" (197), "crashed" (an exception left the loop body)
    data,      \* data: the dict scrape_website returned for the item
    fetched,   \* history: what requests.get gave for the item (kind, status, error)
    calls,     \* history: the backend calls of the item's generate_pitch
    inflight,  \* the request being waited for, with its timeout and its peer
    results,   \* results: the lead records appended so far
    degraded,  \* history: the indices whose fetch failed at network level
    raised     \* the function an exception escaped from, NoException if none

vars == <<inputs, i, pc, data, fetched, calls, inflight, results, degraded, raised>>

(***************************************************************************)
(* Bounds of the model.                                                    *)
(***************************************************************************)
MaxBatch == 2

(***************************************************************************)
(* String helpers (Python str operations on sequences of atoms).           *)
(***************************************************************************)
LOWER == <<"a","b","c","d","e","f","g","h","i","j","k","l","m",
           "n","o","p","q","r","s","t","u","v","w","x","y","z">>
UPPER == <<"A","B","C","D","E","F","G","H","I","J","K","L","M",
           "N","O","P","Q","R","S","T","U","V","W","X","Y","Z">>

IsLower(c) == \E k \in 1..26 : LOWER[k] = c
IsUpper(c) == \E k \in 1..26 : UPPER[k] = c
IsCased(c) == IsLower(c) \/ IsUpper(c)
ToUpper(c) == IF IsLower(c) THEN UPPER[CHOOSE k \in 1..26 : LOWER[k] = c] ELSE c
ToLower(c) == IF IsUpper(c) THEN LOWER[CHOOSE k \in 1..26 : UPPER[k] = c] ELSE c

\* sub in s
Contains(s, sub) ==
    \E k \in 0..(Len(s) - Len(sub)) : SubSeq(s, k + 1, k + Len(sub)) = sub

\* s.startswith(prefix)
StartsWith(s, prefix) ==
    Len(s) >= Len(prefix) /\ SubSeq(s, 1, Len(prefix)) = prefix

\* s.replace(old, new): leftmost non-overlapping occurrences
RECURSIVE Replace(_, _, _)
Replace(s, old, new) ==
    IF Len(s) < Len(old) THEN s
    ELSE IF SubSeq(s, 1, Len(old)) = old
         THEN new \o Replace(SubSeq(s, Len(old) + 1, Len(s)), old, new)
         ELSE <<s[1]>> \o Replace(Tail(s), old, new)

\* s.split(c)[0]
SplitFirst(s, c) ==
    IF \E k \in 1..Len(s) : s[k] = c
    THEN SubSeq(s, 1, (CHOOSE k \in 1..Len(s) :
                          s[k] = c /\ \A j \in 1..(k - 1) : s[j] # c) - 1)
    ELSE s

\* s.title()
Title(s) ==
    [k \in 1..Len(s) |->
        IF k > 1 /\ IsCased(s[k - 1]) THEN ToLower(s[k]) ELSE ToUpper(s[k])]

\* sep.join(parts), parts a sequence of atoms
RECURSIVE Join(_, _)
Join(parts, sep) ==
    IF Len(parts) = 0 THEN <<>>
    ELSE IF Len(parts) = 1 THEN <<parts[1]>>
    ELSE <<parts[1], sep>> \o Join(Tail(parts), sep)

Range(s) == {s[k] : k \in 1..Len(s)}

(***************************************************************************)
(* Literals of the code.                                                   *)
(***************************************************************************)
DOT      == <<".">>
SPACE    == <<" ">>
HTTP     == <<"h","t","t","p">>
HTTPS_   == <<"h","t","t","p","s",":","/","/">>
HTTP_    == <<"h","t","t","p",":","/","/">>
WWW_     == <<"w","w","w",".">>
NotFound == "Not Found"

(***************************************************************************)
(* Input tokens: what a stripped, non-empty line of the text area can be.  *)
(***************************************************************************)
Globex    == <<"G","l","o","b","e","x">>
SpacedTok == <<"A"," ","b",".">>
DomainTok == <<"a","b",".","c","o">>
UrlTok    == <<"h","t","t","p",":","/","/","w","w","w",".","x","y",".","i","o">>

Tokens == {Globex, SpacedTok, DomainTok, UrlTok}

Batches == UNION {[1..n -> Tokens] : n \in 1..MaxBatch}

(***************************************************************************)
(* The environment: what a target site can answer to the GET of line 58.   *)
(***************************************************************************)
TextLimit == 4000
FetchTimeoutSeconds == 10

Words      == {"a@x.com", "b@y.org", "Hello"}
EmailAtoms == {"a@x.com", "b@y.org"}
\* the visible text nodes of a page: none, no address, one address, two
\* addresses in either position
Pages      == {<<>>, <<"Hello">>, <<"a@x.com">>, <<"Hello", "a@x.com">>,
               <<"a@x.com", "b@y.org">>, <<"b@y.org", "Hello", "a@x.com", "b@y.org">>}

SiteStatuses == {200, 401, 403, 404, 503}
FetchErrors  == {"NameResolutionError", "ConnectionRefusedError", "ChunkedEncodingError"}
ReadTimeout  == "ReadTimeout"

NoException == "None"
NoData  == [text |-> <<>>, emails |-> <<>>, contact_email |-> "", source |-> ""]
NoFetch == [kind |-> "none", status |-> 0, err |-> NoException]

SiteResponse(status, page) == [kind |-> "response", status |-> status, page |-> page, err |-> NoException]
SiteFailure(e)             == [kind |-> "error", status |-> 0, page |-> <<>>, err |-> e]

\* a call either returns a value or raises
Return(v)    == [exc |-> NoException, val |-> v]
Raise(e, v0) == [exc |-> e, val |-> v0]

(***************************************************************************)
(* extract_emails (lines 29-33).                                           *)
(***************************************************************************)
\* re.findall(email_pattern, text): the matches, in scan order
findall(text) == SelectSeq(text, LAMBDA w : w \in EmailAtoms)

\* list(set(emails)): the distinct matches, in the iteration order of a set
\* of str, which string-hash randomisation leaves open
ListsOfSet(S) ==
    {l \in [1..Cardinality(S) -> S] : \A j, k \in 1..Cardinality(S) : l[j] = l[k] => j = k}

extract_emails(text) == ListsOfSet(Range(findall(text)))

(***************************************************************************)
(* scrape_website (lines 35-85).                                           *)
(***************************************************************************)
\* a test that leaves the dot out
IsNameSpaceOnly(url_or_name) == Contains(url_or_name, SPACE)

\* line 41: "." not in url_or_name or " " in url_or_name
IsName(url_or_name) == ~Contains(url_or_name, DOT) \/ Contains(url_or_name, SPACE)

NameOnlyResult(url_or_name) ==
    [text |-> <<"User provided Company Name: '">> \o url_or_name
                \o <<"'. No URL provided. Use your internal knowledge.">>,
     emails |-> <<>>,
     contact_email |-> NotFound,
     source |-> "Name_Only"]

\* lines 50-52
ResolveUrl(url_or_name) ==
    IF StartsWith(url_or_name, HTTP) THEN url_or_name ELSE HTTPS_ \o url_or_name

\* line 60
IsProtected(status) == status \in {403, 401, 503}

ProtectedResult(url) ==
    [text |-> <<"Website ">> \o url \o <<" is protected. Use internal knowledge for this domain.">>,
     emails |-> <<>>,
     contact_email |-> NotFound,
     source |-> "Protected_Site"]

\* line 69: soup.get_text(separator=' ', strip=True)[:4000]; the text nodes
\* joined by the separator, cut at the limit (counted in atoms here; the
\* pages of the model stay below it)
get_text(page) ==
    LET t == Join(page, " ") IN SubSeq(t, 1, IF Len(t) < TextLimit THEN Len(t) ELSE TextLimit)

ScrapedResult(text, emails) ==
    [text |-> text,
     emails |-> Join(emails, ", "),
     contact_email |-> IF Len(emails) > 0 THEN emails[1] ELSE NotFound,
     source |-> "Scraped"]

ErrorFallbackResult(url, e) ==
    [text |-> <<"Could not access ">> \o url \o <<". Error: ", e>>,
     emails |-> <<>>,
     contact_email |-> NotFound,
     source |-> "Error_Fallback"]

\* a handler that names the timeout alone
ScrapeCatchesTimeoutOnly(e) == e = ReadTimeout

\* line 79: except Exception catches every error of the try block
ScrapeCatches(e) == TRUE

\* lines 54-85: the try block and its handler; emails is the list that
\* extract_emails produced for the page text
ScrapeTry(url, outcome, emails) ==
    LET body == IF outcome.kind = "error" THEN Raise(outcome.err, NoData)
                ELSE IF IsProtected(outcome.status) THEN Return(ProtectedResult(url))
                ELSE Return(ScrapedResult(get_text(outcome.page), emails))
    IN  IF body.exc # NoException /\ ScrapeCatches(body.exc)
        THEN Return(ErrorFallbackResult(url, body.exc))
        ELSE body

(***************************************************************************)
(* The environment: what the generation backend can answer to a POST.      *)
(***************************************************************************)
FlashModel == "gemini-1.5-flash"
ProModel   == "gemini-pro"

\* a 200 reply carries a JSON body with candidates[0].content.parts[0].text
\* (any text, the empty one included), a JSON body without it, or no JSON
Candidates(text) == [shape |-> "candidates", text |-> text]
NoCandidates     == [shape |-> "no_candidates", text |-> <<"{\"error\": ...}">>]
NotJson          == [shape |-> "not_json", text |-> <<"<html>">>]

OkBodies        == {Candidates(<<>>), Candidates(<<"Hi">>), NoCandidates, NotJson}
RejectStatuses  == {429}
BackendErrors   == {"ConnectionError"}

NoRequest == [kind |-> "none", target |-> <<>>, timeout |-> {}, peer |-> "none"]
Peers     == {"prompt", "silent"}

(***************************************************************************)
(* generate_pitch (lines 87-130).                                          *)
(***************************************************************************)
\* lines 118 and 124
StatusOk(status) == status = 200

\* lines 119 and 125: response.json()['candidates'][0]['content']['parts'][0]['text']
ParseReply(body) ==
    IF body.shape = "candidates" THEN Return(body.text)
    ELSE IF body.shape = "no_candidates" THEN Raise("KeyError('candidates')", <<>>)
    ELSE Raise("JSONDecodeError", <<>>)

\* line 127
GoogleError(status, text) == <<"Error from Google: ", ToString(status), " - ">> \o text

\* line 130
ConnectionError(e) == <<"Connection Error: ", e>>

\* a handler that names the errors of requests alone
GenerateCatchesRequestErrors(e) == e \in BackendErrors \cup {ReadTimeout}

\* line 129: except Exception catches every error of the try block
GenerateCatches(e) == TRUE

\* what generate_pitch returns once the try block ended with r
GenerateResult(r) ==
    IF r.exc # NoException /\ GenerateCatches(r.exc) THEN Return(ConnectionError(r.exc)) ELSE r

\* the timeout argument of requests.get (line 58) and of requests.post
\* (lines 116, 123): the set of bounds passed, empty when none is
GetTimeout  == {FetchTimeoutSeconds}
PostTimeout == {}

(***************************************************************************)
(* The main loop (lines 170-195).                                          *)
(***************************************************************************)
\* lines 175-178
CompanyName(item) ==
    IF Contains(item, HTTP)
    THEN Title(SplitFirst(Replace(Replace(Replace(item, HTTPS_, <<>>), HTTP_, <<>>), WWW_, <<>>), "."))
    ELSE item

\* lines 132-145: the query parameters of the Gmail link
create_mailto_link(email, subject, body) ==
    [to |-> IF email = NotFound THEN "" ELSE email, su |-> subject, body |-> body]

\* lines 187-194
LeadRecord(item, company_name, d, pitch) ==
    [Company |-> company_name,
     Input |-> item,
     ContactEmail |-> d.contact_email,
     GeneratedPitch |-> pitch,
     EmailLink |-> create_mailto_link(d.contact_email,
                                      <<"AI Automation Idea for ">> \o company_name, pitch),
     Status |-> "Success"]

Item == inputs[i]

Init ==
    /\ inputs \in Batches
    /\ i = 1
    /\ pc = "scrape"
    /\ data = NoData
    /\ fetched = NoFetch
    /\ calls = <<>>
    /\ inflight = NoRequest
    /\ results = <<>>
    /\ degraded = {}
    /\ raised = NoException

\* an exception leaves the function named by where and ends the script run
Crash(where) ==
    /\ pc' = "crashed"
    /\ raised' = where
    /\ inflight' = NoRequest
    /\ UNCHANGED <<inputs, i, results>>

\* scrape_website returns r (line 172), having seen outcome
ScrapeReturns(r, outcome) ==
    IF r.exc # NoException
    THEN Crash("scrape_website") /\ UNCHANGED <<data, fetched, calls, degraded>>
    ELSE /\ data' = r.val
         /\ fetched' = [kind |-> outcome.kind, status |-> outcome.status, err |-> outcome.err]
         /\ degraded' = IF outcome.kind = "error" THEN degraded \cup {i} ELSE degraded
         /\ pc' = "generate"
         /\ inflight' = NoRequest
         /\ UNCHANGED <<inputs, i, calls, results, raised>>

\* line 41-47: a name, no request is made
ScrapeNameOnly ==
    /\ pc = "scrape"
    /\ IsName(Item)
    /\ data' = NameOnlyResult(Item)
    /\ fetched' = NoFetch
    /\ pc' = "generate"
    /\ UNCHANGED <<inputs, i, calls, inflight, results, degraded, raised>>

\* lines 50-58: requests.get is sent; the peer answers or stays silent
ScrapeGet ==
    /\ pc = "scrape"
    /\ ~IsName(Item)
    /\ \E peer \in Peers :
         inflight' = [kind |-> "GET", target |-> ResolveUrl(Item),
                      timeout |-> GetTimeout, peer |-> peer]
    /\ pc' = "get_wait"
    /\ UNCHANGED <<inputs, i, data, fetched, calls, results, degraded, raised>>

\* the site answers with a status and a page
GetResponse ==
    /\ pc = "get_wait"
    /\ inflight.peer = "prompt"
    /\ \E status \in SiteStatuses, page \in Pages :
         \E emails \in extract_emails(get_text(page)) :
            ScrapeReturns(ScrapeTry(inflight.target, SiteResponse(status, page), emails),
                          SiteResponse(status, page))

\* the request fails at network level
GetError ==
    /\ pc = "get_wait"
    /\ inflight.peer = "prompt"
    /\ \E e \in FetchErrors :
         ScrapeReturns(ScrapeTry(inflight.target, SiteFailure(e), <<>>), SiteFailure(e))

\* the call record of the request now in flight gets its result
Settle(result) == [calls EXCEPT ![Len(calls)].result = result]

\* generate_pitch returns r (line 181); lines 184-195 build and append the
\* record and the loop moves to the next item
PitchReturns(r, result) ==
    /\ calls' = Settle(result)
    /\ UNCHANGED <<inputs, data, fetched, degraded>>
    /\ IF r.exc # NoException
       THEN Crash("generate_pitch")
       ELSE /\ results' = Append(results, LeadRecord(Item, CompanyName(Item), data, r.val))
            /\ i' = i + 1
            /\ pc' = IF i = Len(inputs) THEN "done" ELSE "scrape"
            /\ inflight' = NoRequest
            /\ raised' = raised

Post(model, peer) == [kind |-> "POST", target |-> model, timeout |-> PostTimeout, peer |-> peer]

\* lines 92-116: the prompt is built and the primary model is called
GeneratePrimary ==
    /\ pc = "generate"
    /\ \E peer \in Peers : inflight' = Post(FlashModel, peer)
    /\ calls' = <<[model |-> FlashModel, result |-> "pending"]>>
    /\ pc' = "post1_wait"
    /\ UNCHANGED <<inputs, i, data, fetched, results, degraded, raised>>

\* lines 118-119 and 124-125: a 200 reply is parsed and its text returned
Reply200(wait) ==
    /\ pc = wait
    /\ inflight.peer = "prompt"
    /\ \E body \in OkBodies :
         PitchReturns(GenerateResult(ParseReply(body)),
                      IF body.shape = "candidates" THEN "ok" ELSE "malformed")

\* requests.post raises
PostRaises(wait) ==
    /\ pc = wait
    /\ inflight.peer = "prompt"
    /\ \E e \in BackendErrors :
         PitchReturns(GenerateResult(Raise(e, <<>>)), "transport")

\* lines 120-123: the primary reply is not a 200 and the secondary model is called
PrimaryRejected ==
    /\ pc = "post1_wait"
    /\ inflight.peer = "prompt"
    /\ \E status \in RejectStatuses : ~StatusOk(status)
    /\ \E peer \in Peers : inflight' = Post(ProModel, peer)
    /\ calls' = Append(Settle("rejected"), [model |-> ProModel, result |-> "pending"])
    /\ pc' = "post2_wait"
    /\ UNCHANGED <<inputs, i, data, fetched, results, degraded, raised>>

\* lines 126-127: the secondary reply is not a 200 either
SecondaryRejected ==
    /\ pc = "post2_wait"
    /\ inflight.peer = "prompt"
    /\ \E status \in RejectStatuses :
         /\ ~StatusOk(status)
         /\ PitchReturns(GenerateResult(Return(GoogleError(status, NoCandidates.text))),
                         "rejected")

\* the peer stays silent and the request's timeout, if it has one, expires
Timeout ==
    /\ pc \in {"get_wait", "post1_wait", "post2_wait"}
    /\ inflight.peer = "silent"
    /\ inflight.timeout # {}
    /\ IF inflight.kind = "GET"
       THEN ScrapeReturns(ScrapeTry(inflight.target, SiteFailure(ReadTimeout), <<>>),
                          SiteFailure(ReadTimeout))
       ELSE PitchReturns(GenerateResult(Raise(ReadTimeout, <<>>)), "transport")

PrimaryReply200   == Reply200("post1_wait")
SecondaryReply200 == Reply200("post2_wait")
PrimaryRaises     == PostRaises("post1_wait")
SecondaryRaises   == PostRaises("post2_wait")

Next ==
    \/ ScrapeNameOnly
    \/ ScrapeGet
    \/ GetResponse
    \/ GetError
    \/ Timeout
    \/ GeneratePrimary
    \/ PrimaryReply200
    \/ PrimaryRaises
    \/ PrimaryRejected
    \/ SecondaryReply200
    \/ SecondaryRaises
    \/ SecondaryRejected

Spec == Init /\ [][Next]_vars

(***************************************************************************)
(* Properties.                                                             *)
(***************************************************************************)
\* a record was just appended: data, fetched and calls are those of the
\* item the last record was built from
Recorded   == Len(results) > 0 /\ pc \in {"scrape", "done"}
LastRecord == results[Len(results)]
LastInput  == inputs[Len(results)]

\* scrape_website has just returned to line 172
ScrapeReturned == pc = "generate"

IsBareName(token) == ~Contains(token, DOT) /\ ~Contains(token, SPACE)

ExceptionTexts == FetchErrors \cup BackendErrors
                  \cup {ReadTimeout, "KeyError('candidates')", "JSONDecodeError"}

IsFallbackText(pitch) ==
    Len(pitch) > 0 /\ pitch[1] \in {"Error from Google: ", "Connection Error: "}

\* C1 as stated: scrape_website never raises and returns a result with a
\* non-empty text, a contact_email and a source for every outcome of the
\* fetch; a network-level failure gives Error_Fallback, "Not Found" and a
\* non-empty text.
C1_NonEmptyTextAlways ==
    /\ raised # "scrape_website"
    /\ ScrapeReturned =>
         /\ data.text # <<>>
         /\ data.contact_email # ""
         /\ data.source \in {"Name_Only", "Protected_Site", "Scraped", "Error_Fallback"}
         /\ fetched.kind = "error" =>
              /\ data.source = "Error_Fallback"
              /\ data.contact_email = NotFound

\* C1 amended: scrape_website never raises and returns a result with a text,
\* a contact_email and a source for every outcome of the fetch; the text is
\* non-empty unless the source is Scraped (then it is the visible text of
\* the page, empty for a page without any); a network-level failure gives
\* Error_Fallback, "Not Found" and a non-empty text.
C1_TotalResult ==
    /\ raised # "scrape_website"
    /\ ScrapeReturned =>
         /\ data.source # "Scraped" => data.text # <<>>
         /\ data.contact_email # ""
         /\ data.source \in {"Name_Only", "Protected_Site", "Scraped", "Error_Fallback"}
         /\ fetched.kind = "error" =>
              /\ data.source = "Error_Fallback"
              /\ data.contact_email = NotFound
              /\ data.text # <<>>

C1_Witness ==
    /\ ScrapeReturned
    /\ fetched.kind = "error"
    /\ fetched.err = "ConnectionRefusedError"
    /\ data.source = "Error_Fallback"
    /\ Len(data.text) > 0

\* C2: generate_pitch never raises and never returns an empty string,
\* whatever the backend does on the primary and the secondary call.
C2_PitchNeverEmpty ==
    /\ raised # "generate_pitch"
    /\ \A k \in 1..Len(results) : results[k].GeneratedPitch # <<>>

\* C3: when both backend attempts fail, the pitch is the template: it
\* contains the target's name and no status code, response body or
\* exception text.
C3_TemplateFallback ==
    (Recorded /\ Len(calls) = 2 /\ calls[1].result # "ok" /\ calls[2].result # "ok") =>
        /\ Contains(LastRecord.GeneratedPitch, CompanyName(LastInput))
        /\ \A status \in RejectStatuses : ToString(status) \notin Range(LastRecord.GeneratedPitch)
        /\ ~Contains(LastRecord.GeneratedPitch, NoCandidates.text)
        /\ ~Contains(LastRecord.GeneratedPitch, NotJson.text)
        /\ \A e \in ExceptionTexts : e \notin Range(LastRecord.GeneratedPitch)

\* C4: the secondary model is called if and only if the primary attempt
\* failed (non-2xx status, 2xx body without the text field, transport
\* error), and the fallback text is returned only after the secondary
\* attempt was made and failed too.
C4_SecondaryIffPrimaryFailed ==
    Recorded =>
        /\ calls[1].model = FlashModel
        /\ (Len(calls) = 2 /\ calls[2].model = ProModel) <=> calls[1].result # "ok"
        /\ IsFallbackText(LastRecord.GeneratedPitch) =>
              Len(calls) = 2 /\ calls[2].result # "ok"

\* C5: the loop appends one record per token, the k-th built from the k-th
\* token, and no failure of a fetch or of the backend ends the loop before
\* the records of the later tokens are appended.
C5_OneRecordPerToken ==
    /\ pc # "crashed"
    /\ raised = NoException
    /\ Len(results) = i - 1
    /\ Len(results) <= Len(inputs)
    /\ \A k \in 1..Len(results) : results[k].Input = inputs[k]
    /\ pc = "done" <=> Len(results) = Len(inputs)

C5_Witness ==
    /\ pc = "done"
    /\ Len(inputs) = 2
    /\ Len(results) = 2
    /\ 1 \in degraded
    /\ IsFallbackText(results[1].GeneratedPitch)
    /\ 2 \notin degraded
    /\ results[2].Input = inputs[2]

\* C6: Scraped only for a 2xx status; Protected_Site with "Not Found"
\* exactly for 401, 403, 503; Error_Fallback with "Not Found" for every
\* other non-2xx status and for every transport error.
C6_SourceKindByOutcome ==
    (ScrapeReturned /\ fetched.kind # "none") =>
        /\ data.source = "Scraped" =>
              fetched.kind = "response" /\ fetched.status \in 200..299
        /\ (data.source = "Protected_Site" /\ data.contact_email = NotFound)
              <=> (fetched.kind = "response" /\ fetched.status \in {401, 403, 503})
        /\ (\/ fetched.kind = "error"
            \/ /\ fetched.kind = "response"
               /\ fetched.status \notin 200..299
               /\ fetched.status \notin {401, 403, 503})
              => (data.source = "Error_Fallback" /\ data.contact_email = NotFound)

\* C7: the status of a record is the success status exactly when the source
\* kind is Scraped, and differs from it whenever a fallback path (Protected,
\* Error_Fallback, Name_Only) was used.
C7_StatusReflectsSource ==
    Recorded => (LastRecord.Status = "Success" <=> data.source = "Scraped")

\* C8: every outbound request is bounded by a timeout, so the batch always
\* runs to its end: the loop is done or a step can be taken, also when a
\* site or the backend accepts the connection and never answers.
C8_BatchTerminates == pc = "done" \/ ENABLED Next

C10_FirstMatchInScanOrder ==
    (ScrapeReturned /\ data.source = "Scraped") =>
        data.contact_email =
            IF findall(data.text) = <<>> THEN NotFound ELSE findall(data.text)[1]

====
